---- MODULE Spec2Model ----
(***************************************************************************)
(* Model of the autodealer back office: the warehouse stock ledger         *)
(* (repositories/warehouse_repository.rs, handlers/warehouse_handler.rs)   *)
(* and the vehicle / service-campaign completion tracking                  *)
(* (repositories/car_repository.rs, handlers/car_handlers.rs).             *)
(*                                                                         *)
(* Every request handler is a task running concurrently with the others.   *)
(* One action of the model is one round trip to the database (one SQL      *)
(* statement, which the store executes atomically) together with the       *)
(* handler code that runs before the next round trip.  A handler that      *)
(* makes two round trips is two actions, and other tasks may run between.  *)
(* Option<T> is modelled as a sequence: <<>> is None and <<x>> is Some(x). *)
(***************************************************************************)
EXTENDS Integers, Sequences, FiniteSets, TLC

VARIABLES
    warehouse,   \* table warehouse: a set of rows
    nextId,      \* number of warehouse ids handed out by Uuid::new_v4()
    clock,       \* wall clock, read by chrono::Utc::now()
    pc,          \* per task: position in the handler it runs
    cur,         \* per task: the request being served and the handler's locals; for a
                 \* movement also, as history, the quantity its UPDATE produced
    last,        \* the request answered last, and its response
    ledger,      \* history: per entry id, the quantity the applied writes add up to
    rejected,    \* history: the Outgoing movements refused for insufficient stock
    parts,       \* table parts: part id -> row
    cars,        \* table cars: car id -> row
    campaigns,   \* table service_campaigns: campaign id -> row
    done,        \* history: per car, the campaigns marked completed and not unmarked since
    edited,      \* history: the cars a generic update has written
    unmarked     \* history: the <<car, campaign>> recorded as completed and removed again

vars == <<warehouse, nextId, clock, pc, cur, last, ledger, rejected, parts, cars, campaigns, done, edited,
         unmarked>>
wvars == <<warehouse, nextId, ledger, rejected, parts>>
cvars == <<cars, campaigns, done, edited, unmarked>>

----------------------------------------------------------------------------
(* Bounds *)

\* number of concurrent request-handling tasks
NProcs == 2
\* number of warehouse requests served in one behaviour
MaxOps == 3
\* number of vehicle and campaign requests served in one behaviour
MaxCarOps == 2
\* number of requests served in one behaviour of marking and unmarking
MaxMarkOps == 3

Procs == 1..NProcs

----------------------------------------------------------------------------
(* Program constants *)

\* i32::MAX, the largest value of the quantity column
I32Max == 2147483647
\* min_stock_level.unwrap_or(0)
DefaultMinStock == 0
\* max_stock_level.unwrap_or(100)
DefaultMaxStock == 100

PartIds == {1, 2}

None == <<>>
Some(x) == <<x>>
IsSome(o) == o # <<>>
UnwrapOr(o, d) == IF o = <<>> THEN d ELSE o[1]
\* Option::or
OrElse(o, p) == IF o = <<>> THEN p ELSE o

----------------------------------------------------------------------------
(* Requests the callers send *)

CreateRequests ==
    [part_id : PartIds, quantity : {-1, 0}, min_stock_level : {None},
     max_stock_level : {None}, location : {None}]
    \cup [part_id : PartIds, quantity : {2}, min_stock_level : {Some(2)},
          max_stock_level : {None}, location : {Some("A")}]

UpdateRequests ==
    { [quantity |-> None, min_stock_level |-> None, max_stock_level |-> None, location |-> None],
      [quantity |-> Some(1), min_stock_level |-> None, max_stock_level |-> None, location |-> None],
      [quantity |-> Some(-1), min_stock_level |-> None, max_stock_level |-> None, location |-> None],
      [quantity |-> None, min_stock_level |-> Some(3), max_stock_level |-> None, location |-> Some("B")] }

MovementTypes == {"incoming", "outgoing", "adjustment"}

StockMovementRequests ==
    [quantity : {1, 3}, movement_type : {"incoming", "outgoing"}]
    \cup [quantity : {1}, movement_type : {"adjustment"}]
    \cup [quantity : {0, I32Max}, movement_type : {"incoming"}]
    \cup [quantity : {2}, movement_type : {"outgoing"}]

\* ids a caller may name: every id handed out so far and one that never exists
EntryIdsNamed == 1..(nextId + 1)

----------------------------------------------------------------------------
(* validator::Validate on the request structs (models/warehouse.rs) *)

ValidOpt(o) == o = None \/ o[1] >= 0

ValidateCreate(r) ==
    r.quantity >= 0 /\ ValidOpt(r.min_stock_level) /\ ValidOpt(r.max_stock_level)

ValidateUpdate(r) ==
    ValidOpt(r.quantity) /\ ValidOpt(r.min_stock_level) /\ ValidOpt(r.max_stock_level)

\* ValidateMovement letting an amount of 0 through
ValidateMovementNonNegative(r) == r.quantity >= 0

\* range(min = 1) on StockMovementRequest::quantity
ValidateMovement(r) == r.quantity >= 1

----------------------------------------------------------------------------
(* SQL statements of WarehouseRepositoryImpl, as functions of the table *)

\* SELECT id FROM warehouse WHERE part_id = $1 LIMIT 1
exists_by_part_id(w, part) == \E r \in w : r.part_id = part

\* SELECT ... FROM warehouse w JOIN parts p ... WHERE w.id = $1
find_by_id(w, id) ==
    IF \E r \in w : r.id = id THEN Some(CHOOSE r \in w : r.id = id) ELSE None

\* SELECT ... FROM warehouse WHERE part_id = $1   (fetch_optional)
find_by_part_id(w, part) ==
    IF \E r \in w : r.part_id = part
    THEN Some(CHOOSE r \in w : r.part_id = part) ELSE None

\* the unique index on warehouse.part_id
PartIdUnique == TRUE

\* the INSERT of save is refused by the store
SaveFails(w, req) == PartIdUnique /\ exists_by_part_id(w, req.part_id)

\* INSERT INTO warehouse (...) VALUES (...)
save(w, id, req, now) ==
    w \cup { [id |-> id, part_id |-> req.part_id, quantity |-> req.quantity,
              min_stock_level |-> UnwrapOr(req.min_stock_level, DefaultMinStock),
              max_stock_level |-> UnwrapOr(req.max_stock_level, DefaultMaxStock),
              location |-> req.location, created_at |-> now, updated_at |-> now] }

\* UPDATE warehouse SET quantity = $1, ... WHERE id = $6, with the values
\* computed from the request and the item read before
update(w, id, req, item, now) ==
    { IF r.id = id
      THEN [r EXCEPT !.quantity = UnwrapOr(req.quantity, item.quantity),
                     !.min_stock_level = UnwrapOr(req.min_stock_level, item.min_stock_level),
                     !.max_stock_level = UnwrapOr(req.max_stock_level, item.max_stock_level),
                     !.location = OrElse(req.location, item.location),
                     !.updated_at = now]
      ELSE r : r \in w }

\* the part of every warehouse row is in the parts table (foreign key)
PartExists(part) == TRUE

\* the WHERE clause of find_all_with_low_stock, with quantity < min_stock_level
LowStockMatchesBelow(r) == PartExists(r.part_id) /\ r.quantity < r.min_stock_level

\* FROM warehouse w JOIN parts p ON w.part_id = p.id
\* WHERE w.quantity <= w.min_stock_level
LowStockMatches(r) == PartExists(r.part_id) /\ r.quantity <= r.min_stock_level

\* the results find_all_with_low_stock may give: the matching rows in an order
\* that ORDER BY w.quantity ASC admits
find_all_with_low_stock(w) ==
    LET S == { r \in w : LowStockMatches(r) }
    IN  { f \in [1..Cardinality(S) -> S] :
            \A i, j \in 1..Cardinality(S) :
                i < j => f[i] # f[j] /\ f[i].quantity <= f[j].quantity }

\* DELETE FROM warehouse with the id compared to the part_id column
delete_by_part_id(w, id) == { r \in w : r.part_id # id }

\* DELETE FROM warehouse WHERE id = $1
delete(w, id) == { r \in w : r.id # id }

\* StockRowMatches with the stock check compared against zero
StockRowMatchesSignOnly(r, part, req) ==
    /\ r.part_id = part
    /\ (req.movement_type = "outgoing" => r.quantity >= 0)

\* StockRowMatches without the stock check
StockRowMatchesAlways(r, part, req) == r.part_id = part

\* the WHERE clause of the UPDATE of update_stock
StockRowMatches(r, part, req) ==
    /\ r.part_id = part
    /\ (req.movement_type = "outgoing" => r.quantity >= req.quantity)

\* StockNewQuantity as it is after the UPDATE has been run a second time
StockNewQuantityTwice(r, req) ==
    CASE req.movement_type = "incoming" -> r.quantity + 2 * req.quantity
      [] req.movement_type = "outgoing" -> r.quantity - 2 * req.quantity
      [] OTHER -> req.quantity

\* StockNewQuantity with an Adjustment added to the stored quantity
StockNewQuantityAdditive(r, req) ==
    CASE req.movement_type = "outgoing" -> r.quantity - req.quantity
      [] OTHER -> r.quantity + req.quantity

\* StockNewQuantity with an Incoming movement written as an absolute value
StockNewQuantityAbsolute(r, req) ==
    CASE req.movement_type = "outgoing" -> r.quantity - req.quantity
      [] OTHER -> req.quantity

\* the SET clause of the UPDATE of update_stock
StockNewQuantity(r, req) ==
    CASE req.movement_type = "incoming" -> r.quantity + req.quantity
      [] req.movement_type = "outgoing" -> r.quantity - req.quantity
      [] OTHER -> req.quantity

\* quantity + $1 leaves the range of the integer column: the statement fails
StockOverflows(w, part, req) ==
    /\ req.movement_type = "incoming"
    /\ \E r \in w : r.part_id = part /\ r.quantity > I32Max - req.quantity

\* rows_affected() of the UPDATE of update_stock
StockRowsAffected(w, part, req) ==
    Cardinality({ r \in w : StockRowMatches(r, part, req) })

\* the UPDATE of update_stock without updated_at = $2
update_stock_keeps_time(w, part, req, now) ==
    { IF StockRowMatches(r, part, req)
      THEN [r EXCEPT !.quantity = StockNewQuantity(r, req)]
      ELSE r : r \in w }

\* the table after the UPDATE of update_stock
update_stock(w, part, req, now) ==
    { IF StockRowMatches(r, part, req)
      THEN [r EXCEPT !.quantity = StockNewQuantity(r, req), !.updated_at = now]
      ELSE r : r \in w }

----------------------------------------------------------------------------
(* HTTP responses of the warehouse handlers *)

Response(status, error, body) == [status |-> status, error |-> error, body |-> body]

NoResponse == Response(0, "", None)
BadRequest == Response(400, "Validation failed", None)

NoRequest == [op |-> "none"]
NoEvent == [proc |-> 0, req |-> NoRequest, resp |-> NoResponse]

\* the stored parts: only the purchase price is modelled
PartSeed == [part \in PartIds |-> [purchase_price |-> 3]]

\* no task has a request, the warehouse table is empty
TasksInit ==
    /\ clock = 0
    /\ pc = [p \in Procs |-> "idle"]
    /\ cur = [p \in Procs |-> NoRequest]
    /\ last = NoEvent

WarehouseInit ==
    /\ warehouse = {}
    /\ nextId = 0
    /\ ledger = <<>>
    /\ rejected = {}
    /\ parts = PartSeed

\* the tasks are interchangeable: of the idle ones the first takes the request
FirstIdle(p) == pc[p] = "idle" /\ \A q \in Procs : q < p => pc[q] # "idle"

\* a task takes the next request
Begin(p) == FirstIdle(p) /\ clock < MaxOps /\ clock' = clock + 1

\* the handler returns its response
Finish(p, req, resp) ==
    /\ pc' = [pc EXCEPT ![p] = "idle"]
    /\ cur' = [cur EXCEPT ![p] = NoRequest]
    /\ last' = [proc |-> p, req |-> req, resp |-> resp]

\* the handler awaits its next round trip
Await(p, next, req) ==
    /\ pc' = [pc EXCEPT ![p] = next]
    /\ cur' = [cur EXCEPT ![p] = req]
    /\ last' = NoEvent

\* create_warehouse_item_handler up to the answer of exists_by_part_id
CreateCheck(p) ==
    \E r \in CreateRequests :
        LET req == [op |-> "create", request |-> r] IN
        /\ Begin(p)
        /\ IF ~ValidateCreate(r)
           THEN Finish(p, req, BadRequest)
           ELSE IF exists_by_part_id(warehouse, r.part_id)
           THEN Finish(p, req, Response(409, "Warehouse item for this part already exists", None))
           ELSE Await(p, "create_save", req)
        /\ UNCHANGED <<wvars, cvars>>

\* create_warehouse_item_handler: repo.save and the response
CreateSave(p) ==
    /\ pc[p] = "create_save"
    /\ LET r == cur[p].request
           id == nextId + 1
       IN  IF SaveFails(warehouse, r)
           THEN /\ Finish(p, cur[p], Response(500, "Failed to create warehouse item", None))
                /\ UNCHANGED <<warehouse, ledger>>
           ELSE /\ warehouse' = save(warehouse, id, r, clock)
                /\ ledger' = (id :> r.quantity) @@ ledger
                /\ Finish(p, cur[p], Response(201, "", find_by_id(warehouse', id)))
    /\ nextId' = nextId + 1
    /\ UNCHANGED <<clock, rejected, parts, cvars>>

\* update_warehouse_item_handler up to the answer of find_by_id
UpdateFind(p) ==
    \E id \in EntryIdsNamed, r \in UpdateRequests :
        LET req == [op |-> "update", id |-> id, request |-> r, now |-> clock'] IN
        /\ Begin(p)
        /\ IF ~ValidateUpdate(r)
           THEN Finish(p, req, BadRequest)
           ELSE IF find_by_id(warehouse, id) = None
           THEN Finish(p, req, Response(404, "Warehouse item not found", None))
           ELSE Await(p, "update_write", [op |-> "update", id |-> id, request |-> r,
                                          now |-> clock', item |-> find_by_id(warehouse, id)[1]])
        /\ UNCHANGED <<wvars, cvars>>

\* update_warehouse_item_handler: the UPDATE and the response
UpdateWrite(p) ==
    /\ pc[p] = "update_write"
    /\ LET q == cur[p] IN
        /\ warehouse' = update(warehouse, q.id, q.request, q.item, q.now)
        /\ ledger' = IF find_by_id(warehouse, q.id) = None THEN ledger
                     ELSE [ledger EXCEPT ![q.id] = find_by_id(warehouse', q.id)[1].quantity]
        /\ IF find_by_id(warehouse', q.id) = None
           THEN Finish(p, q, Response(404, "Warehouse item not found", None))
           ELSE Finish(p, q, Response(200, "", find_by_id(warehouse', q.id)))
    /\ UNCHANGED <<nextId, clock, rejected, parts, cvars>>

\* delete_warehouse_item_handler
Delete(p) ==
    \E id \in EntryIdsNamed :
        LET req == [op |-> "delete", id |-> id] IN
        /\ Begin(p)
        /\ warehouse' = delete(warehouse, id)
        /\ IF warehouse' # warehouse
           THEN Finish(p, req, Response(204, "", None))
           ELSE Finish(p, req, Response(404, "Warehouse item not found", None))
        /\ UNCHANGED <<nextId, ledger, rejected, parts, cvars>>

\* the error wording of update_stock_handler for Ok(None)
StockNotFound(req) ==
    Response(404,
             IF req.movement_type = "outgoing"
             THEN "Warehouse item not found or insufficient stock"
             ELSE "Warehouse item not found",
             None)

\* the effect of one applied movement on the history of an entry
LedgerAfter(l, w, part, r) ==
    [id \in DOMAIN l |->
        IF \E row \in w : row.id = id /\ StockRowMatches(row, part, r)
        THEN CASE r.movement_type = "incoming" -> l[id] + r.quantity
               [] r.movement_type = "outgoing" -> l[id] - r.quantity
               [] OTHER -> r.quantity
        ELSE l[id]]

\* update_stock_handler up to the answer of the UPDATE
StockUpdate(p) ==
    \E part \in PartIds, r \in StockMovementRequests :
        LET req == [op |-> "stock", part_id |-> part, request |-> r, now |-> clock',
                    produced |-> -1] IN
        /\ Begin(p)
        /\ IF ~ValidateMovement(r)
           THEN /\ Finish(p, req, BadRequest)
                /\ UNCHANGED <<warehouse, ledger, rejected>>
           ELSE IF StockOverflows(warehouse, part, r)
           THEN /\ Finish(p, req, Response(500, "Failed to update stock", None))
                /\ UNCHANGED <<warehouse, ledger, rejected>>
           ELSE IF StockRowsAffected(warehouse, part, r) > 0
           THEN /\ warehouse' = update_stock(warehouse, part, r, clock')
                /\ ledger' = LedgerAfter(ledger, warehouse, part, r)
                /\ Await(p, "stock_find",
                         [req EXCEPT !.produced =
                              find_by_part_id(warehouse', part)[1].quantity])
                /\ UNCHANGED rejected
           ELSE /\ Finish(p, req, StockNotFound(r))
                /\ rejected' = IF exists_by_part_id(warehouse, part)
                                THEN rejected \cup {[part_id |-> part, quantity |-> r.quantity]}
                                ELSE rejected
                /\ UNCHANGED <<warehouse, ledger>>
        /\ UNCHANGED <<nextId, parts, cvars>>

\* update_stock_handler: find_by_part_id after the UPDATE, and the response.
\* The SELECT is a round trip of its own after the UPDATE is committed: it
\* either answers or fails with a sqlx::Error (no connection from the pool,
\* connection lost), which update_stock returns through `?`.
StockFind(p) ==
    /\ pc[p] = "stock_find"
    /\ \E answered \in BOOLEAN :
        LET found == find_by_part_id(warehouse, cur[p].part_id) IN
        IF ~answered
        THEN Finish(p, cur[p], Response(500, "Failed to update stock", None))
        ELSE IF found = None
        THEN Finish(p, cur[p], StockNotFound(cur[p].request))
        ELSE Finish(p, cur[p], Response(200, "", found))
    /\ UNCHANGED <<warehouse, nextId, clock, ledger, rejected, parts, cvars>>

\* get_low_stock_items_handler
LowStock(p) ==
    \E rows \in find_all_with_low_stock(warehouse) :
        /\ Begin(p)
        /\ Finish(p, [op |-> "low_stock"], Response(200, "", rows))
        /\ UNCHANGED <<wvars, cvars>>

WNext ==
    \E p \in Procs :
        \/ CreateCheck(p)
        \/ CreateSave(p)
        \/ UpdateFind(p)
        \/ UpdateWrite(p)
        \/ Delete(p)
        \/ StockUpdate(p)
        \/ StockFind(p)
        \/ LowStock(p)

----------------------------------------------------------------------------
(* Parts and the value of the stock *)

\* the part ids a request may name: the stored ones and one that is not
PartIdsNamed == PartIds \cup {3}

\* UpdatePartRequest: only purchase_price is modelled
UpdatePartRequests == [purchase_price : {None, Some(4), Some(-1)}]

\* #[validate(range(min = 0.0))] on UpdatePartRequest.purchase_price
ValidateUpdatePart(r) == r.purchase_price = None \/ r.purchase_price[1] >= 0

\* SELECT ... FROM parts WHERE id = $1
part_find_by_id(pt, id) == IF id \in DOMAIN pt THEN Some(pt[id]) ELSE None

\* UPDATE parts SET purchase_price = $5 WHERE id = $9, with the price the
\* request does not give taken from the part read before
part_update(pt, id, r, current) ==
    IF id \in DOMAIN pt
    THEN [pt EXCEPT ![id] =
            [purchase_price |-> IF r.purchase_price = None THEN current.purchase_price
                                ELSE r.purchase_price[1]]]
    ELSE pt

\* update_part_handler up to the answer of find_by_id
UpdatePartFind(p) ==
    \E id \in PartIdsNamed, r \in UpdatePartRequests :
        LET req == [op |-> "update_part", id |-> id, request |-> r] IN
        /\ Begin(p)
        /\ IF ~ValidateUpdatePart(r)
           THEN Finish(p, req, BadRequest)
           ELSE IF part_find_by_id(parts, id) = None
           THEN Finish(p, req, Response(404, "Part not found", None))
           ELSE Await(p, "part_write", [op |-> "update_part", id |-> id, request |-> r,
                                        current |-> part_find_by_id(parts, id)[1]])
        /\ UNCHANGED <<wvars, cvars>>

\* update_part_handler: the UPDATE and the response
UpdatePartWrite(p) ==
    /\ pc[p] = "part_write"
    /\ LET q == cur[p] IN
        /\ parts' = part_update(parts, q.id, q.request, q.current)
        /\ IF part_find_by_id(parts', q.id) = None
           THEN Finish(p, q, Response(404, "Part not found", None))
           ELSE Finish(p, q, Response(200, "", part_find_by_id(parts', q.id)))
    /\ UNCHANGED <<warehouse, nextId, clock, ledger, rejected, cvars>>

\* the rows of warehouse w JOIN parts p ON w.part_id = p.id
JoinParts(w, pt) == { row \in w : row.part_id \in DOMAIN pt }

\* A value of type f64 (double precision) that is a whole number, written
\* hi * F64Base + lo with 0 <= lo < F64Base: the products of an i32 quantity
\* and a price are exact in an f64 and exceed 32 bits.
F64Base == 65536

F64Norm(hi, lo) == [hi |-> hi + (lo \div F64Base), lo |-> lo % F64Base]

\* an integer as an f64
F64(n) == F64Norm(0, n)

\* w.quantity * p.purchase_price
F64Mul(quantity, price) ==
    F64Norm((quantity \div F64Base) * price, (quantity % F64Base) * price)

F64Add(a, b) == F64Norm(a.hi + b.hi, a.lo + b.lo)

\* SUM(w.quantity * p.purchase_price) over a non-empty set of joined rows
RECURSIVE SumValue(_, _)
SumValue(rows, pt) ==
    IF rows = {} THEN F64(0)
    ELSE LET row == CHOOSE x \in rows : TRUE
         IN  F64Add(F64Mul(row.quantity, pt[row.part_id].purchase_price),
                    SumValue(rows \ {row}, pt))

\* the sum of a set of f64 values
RECURSIVE SumSet(_)
SumSet(S) ==
    IF S = {} THEN F64(0)
    ELSE LET x == CHOOSE y \in S : TRUE IN F64Add(x, SumSet(S \ {x}))

\* get_total_value summing each distinct product once
get_total_value_distinct(w, pt) ==
    SumSet({ F64Mul(row.quantity, pt[row.part_id].purchase_price) : row \in JoinParts(w, pt) })

\* get_total_value: the SUM is NULL over no row, and .unwrap_or(0.0)
get_total_value(w, pt) ==
    LET total == IF JoinParts(w, pt) = {} THEN None
                 ELSE Some(SumValue(JoinParts(w, pt), pt))
    IN  IF total = None THEN F64(0) ELSE total[1]

\* get_total_inventory_value_handler
TotalValue(p) ==
    /\ Begin(p)
    /\ Finish(p, [op |-> "total_value"], Response(200, "", get_total_value(warehouse, parts)))
    /\ UNCHANGED <<wvars, cvars>>

\* the stock, the parts and the value of the stock
VNext ==
    \E p \in Procs :
        \/ CreateCheck(p)
        \/ CreateSave(p)
        \/ Delete(p)
        \/ StockUpdate(p)
        \/ StockFind(p)
        \/ UpdatePartFind(p)
        \/ UpdatePartWrite(p)
        \/ TotalValue(p)

----------------------------------------------------------------------------
(* Vehicles and service campaigns *)

\* car ids a caller may name; car 3 is never stored
CarIdsNamed == {1, 2, 3}
CampaignIds == {1, 2}
\* VINs of the valid length of 17 characters
ValidVins == {"V1", "V2", "V3"}

\* the elements of an array column
Range(a) == { a[i] : i \in 1..Len(a) }

\* the cars stored when the tasks start: campaign 2 has been marked completed
\* on car 1
CarSeed ==
    (1 :> [brand_id |-> 1, model_id |-> 1, vin |-> "V1", mileage |-> 0,
           completed_service_campaigns |-> <<2>>, created_at |-> -2, updated_at |-> -2])
    @@ (2 :> [brand_id |-> 1, model_id |-> 1, vin |-> "V2", mileage |-> 0,
              completed_service_campaigns |-> <<>>, created_at |-> -1, updated_at |-> -1])

\* the campaigns that may be stored when the tasks start
CampaignSeeds1 ==
    [brand_id : {1}, car_model_id : {1}, target_vins : {<<>>, <<"V2">>},
     is_mandatory : {FALSE}, is_completed : {FALSE}, status : {"active"},
     created_at : {-3}, updated_at : {-3}]

CampaignSeeds2 ==
    [brand_id : {2}, car_model_id : {1}, target_vins : {<<>>},
     is_mandatory : {TRUE}, is_completed : {FALSE}, status : {"active"},
     created_at : {-4}, updated_at : {-4}]
    \cup [brand_id : {1}, car_model_id : {1}, target_vins : {<<"V1", "V3">>},
          is_mandatory : {TRUE}, is_completed : {FALSE}, status : {"active"},
          created_at : {-4}, updated_at : {-4}]

UpdateCarNone ==
    [brand_id |-> None, model_id |-> None, vin |-> None, mileage |-> None,
     completed_service_campaigns |-> None]

UpdateCarRequests ==
    { UpdateCarNone,
      [UpdateCarNone EXCEPT !.model_id = Some(2)],
      [UpdateCarNone EXCEPT !.vin = Some("V3")],
      [UpdateCarNone EXCEPT !.vin = Some("short")],
      [UpdateCarNone EXCEPT !.completed_service_campaigns = Some(<<>>)],
      [UpdateCarNone EXCEPT !.completed_service_campaigns = Some(<<1, 1>>)] }

\* validator::Validate on UpdateCarRequest: the VIN has 17 characters
ValidateUpdateCar(r) == r.vin = None \/ r.vin[1] \in ValidVins

(* SQL statements of CarRepositoryImpl, as functions of the tables *)

\* SELECT ... FROM cars WHERE id = $1
car_find_by_id(cs, id) == IF id \in DOMAIN cs THEN Some(cs[id]) ELSE None

\* UPDATE cars SET brand_id = $1, ..., completed_service_campaigns = $11,
\* updated_at = $12 WHERE id = $13, with the values computed from the request
\* and the car read before
car_update(cs, id, r, car, now) ==
    [v \in DOMAIN cs |->
        IF v = id
        THEN [cs[v] EXCEPT
                !.brand_id = UnwrapOr(r.brand_id, car.brand_id),
                !.model_id = UnwrapOr(r.model_id, car.model_id),
                !.vin = UnwrapOr(r.vin, car.vin),
                !.mileage = UnwrapOr(r.mileage, car.mileage),
                !.completed_service_campaigns =
                    UnwrapOr(r.completed_service_campaigns, car.completed_service_campaigns),
                !.updated_at = now]
        ELSE cs[v]]

\* DELETE FROM cars WHERE id = $1
car_delete(cs, id) == [v \in DOMAIN cs \ {id} |-> cs[v]]

\* array_append(completed_service_campaigns, $1)
array_append(a, x) == Append(a, x)

\* array_remove that drops the first element, whatever it is
array_remove_head(a, x) == IF a = <<>> THEN a ELSE Tail(a)

\* array_remove that empties the array
array_remove_all(a, x) == <<>>

\* array_remove(completed_service_campaigns, $1): every occurrence goes
array_remove(a, x) == SelectSeq(a, LAMBDA y : y # x)

\* AddMatches with the membership test looking at the first element only
AddMatchesFirstOnly(cs, car_id, campaign_id) ==
    /\ car_id \in DOMAIN cs
    /\ ~(Len(cs[car_id].completed_service_campaigns) > 0
          /\ cs[car_id].completed_service_campaigns[1] = campaign_id)

\* AddMatches without the membership test
AddMatchesAnyCampaign(cs, car_id, campaign_id) == car_id \in DOMAIN cs

\* the rows the UPDATE of add_completed_campaign matches:
\* WHERE id = $3 AND NOT $1 = ANY(completed_service_campaigns)
AddMatches(cs, car_id, campaign_id) ==
    /\ car_id \in DOMAIN cs
    /\ ~(campaign_id \in Range(cs[car_id].completed_service_campaigns))

\* the table after the UPDATE of add_completed_campaign
add_completed_campaign(cs, car_id, campaign_id, now) ==
    [v \in DOMAIN cs |->
        IF v = car_id /\ AddMatches(cs, car_id, campaign_id)
        THEN [cs[v] EXCEPT
                !.completed_service_campaigns = array_append(@, campaign_id),
                !.updated_at = now]
        ELSE cs[v]]

\* the table after the UPDATE of remove_completed_campaign
remove_completed_campaign(cs, car_id, campaign_id, now) ==
    [v \in DOMAIN cs |->
        IF v = car_id
        THEN [cs[v] EXCEPT
                !.completed_service_campaigns = array_remove(@, campaign_id),
                !.updated_at = now]
        ELSE cs[v]]

\* the table after the UPDATE of clear_completed_campaigns
clear_completed_campaigns(cs, car_id, now) ==
    [v \in DOMAIN cs |->
        IF v = car_id
        THEN [cs[v] EXCEPT !.completed_service_campaigns = <<>>, !.updated_at = now]
        ELSE cs[v]]

\* car row with its id, as the SELECT returns it
CarRow(cs, v) == [id |-> v, car |-> cs[v]]

\* SELECT ... FROM cars WHERE $1 = ANY(completed_service_campaigns)
\* ORDER BY created_at DESC
get_cars_by_completed_campaign(cs, campaign_id) ==
    LET S == { CarRow(cs, v) : v \in { u \in DOMAIN cs :
                   campaign_id \in Range(cs[u].completed_service_campaigns) } }
    IN  [i \in 1..Cardinality(S) |->
            CHOOSE a \in S :
                Cardinality({ b \in S : b.car.created_at > a.car.created_at }) = i - 1]

\* PendingMatches with an empty target_vins matching no VIN
PendingMatchesNoWildcard(sc, id, car) ==
    /\ sc.status = "active"
    /\ car.vin \in Range(sc.target_vins)
    /\ sc.brand_id = car.brand_id
    /\ sc.car_model_id = car.model_id
    /\ ~(id \in Range(car.completed_service_campaigns))

\* the WHERE clause of the SELECT of get_pending_campaigns_for_car
PendingMatches(sc, id, car) ==
    /\ sc.status = "active"
    /\ (sc.target_vins = <<>> \/ car.vin \in Range(sc.target_vins))
    /\ sc.brand_id = car.brand_id
    /\ sc.car_model_id = car.model_id
    /\ ~(id \in Range(car.completed_service_campaigns))

\* match row.status.as_str() { ... } of get_pending_campaigns_for_car
PendingStatus(str) ==
    CASE str = "active" -> "Active"
      [] str = "completed" -> "Completed"
      [] str = "cancelled" -> "Cancelled"
      [] OTHER -> "Active"

\* PendingBefore ordering by creation time only
PendingBeforeCreatedOnly(a, b) == a.created_at > b.created_at

\* ORDER BY sc.is_mandatory DESC, sc.created_at DESC
PendingBefore(a, b) ==
    \/ a.is_mandatory /\ ~b.is_mandatory
    \/ a.is_mandatory = b.is_mandatory /\ a.created_at > b.created_at

\* the ServiceCampaign built from a row
CampaignFromRow(camps, id) ==
    [id |-> id, brand_id |-> camps[id].brand_id, car_model_id |-> camps[id].car_model_id,
     target_vins |-> camps[id].target_vins, is_mandatory |-> camps[id].is_mandatory,
     is_completed |-> camps[id].is_completed, status |-> PendingStatus(camps[id].status),
     created_at |-> camps[id].created_at, updated_at |-> camps[id].updated_at]

\* get_pending_campaigns_for_car without its ORDER BY: the matching rows in
\* any order
get_pending_campaigns_unordered(camps, car) ==
    LET S == { CampaignFromRow(camps, id) :
                   id \in { c \in DOMAIN camps : PendingMatches(camps[c], c, car) } }
    IN  { f \in [1..Cardinality(S) -> S] :
            \A i, j \in 1..Cardinality(S) : i < j => f[i] # f[j] }

\* the results the SELECT of get_pending_campaigns_for_car may give for the car
\* read: the matching rows in an order that ORDER BY admits (rows that compare
\* equal come in any order)
get_pending_campaigns_for_car(camps, car) ==
    LET S == { CampaignFromRow(camps, id) :
                   id \in { c \in DOMAIN camps : PendingMatches(camps[c], c, car) } }
    IN  { f \in [1..Cardinality(S) -> S] :
            \A i, j \in 1..Cardinality(S) :
                i < j => f[i] # f[j] /\ ~PendingBefore(f[j], f[i]) }

(* SQL statements of ServiceCampaignRepositoryImpl *)

StatusStr(status) ==
    CASE status = "Active" -> "active"
      [] status = "Completed" -> "completed"
      [] OTHER -> "cancelled"

\* UPDATE service_campaigns SET status = $1, updated_at = $2 WHERE id = $3
update_status(camps, id, status, now) ==
    [c \in DOMAIN camps |->
        IF c = id THEN [camps[c] EXCEPT !.status = StatusStr(status), !.updated_at = now]
        ELSE camps[c]]

\* UPDATE service_campaigns SET is_completed = true, status = 'completed', ...
mark_completed(camps, id, now) ==
    [c \in DOMAIN camps |->
        IF c = id THEN [camps[c] EXCEPT !.is_completed = TRUE, !.status = "completed",
                                        !.updated_at = now]
        ELSE camps[c]]

\* UPDATE service_campaigns SET is_completed = false, status = 'active', ...
mark_pending(camps, id, now) ==
    [c \in DOMAIN camps |->
        IF c = id THEN [camps[c] EXCEPT !.is_completed = FALSE, !.status = "active",
                                        !.updated_at = now]
        ELSE camps[c]]

CarsInit ==
    /\ cars = CarSeed
    /\ campaigns \in [CampaignIds -> CampaignSeeds1 \cup CampaignSeeds2]
    /\ campaigns[1] \in CampaignSeeds1
    /\ campaigns[2] \in CampaignSeeds2
    /\ done = [v \in DOMAIN CarSeed |-> Range(CarSeed[v].completed_service_campaigns)]
    /\ edited = {}
    /\ unmarked = {}

(* The handlers of car_handlers.rs and service_campaign_handlers.rs *)

\* a task takes the next vehicle or campaign request
CarBegin(p) == FirstIdle(p) /\ clock < MaxCarOps /\ clock' = clock + 1

CarNotFound(msg) == Response(404, msg, None)

\* a pending-campaigns query in flight no longer has to exclude the campaigns
\* undone on its car
Forget(cu, car_id, undone) ==
    [q \in Procs |->
        IF cu[q].op = "pending" /\ cu[q].car_id = car_id
        THEN [cu[q] EXCEPT !.excluded = @ \ undone]
        ELSE cu[q]]

\* update_car_handler up to the answer of find_by_id
UpdateCarFind(p) ==
    \E id \in CarIdsNamed, r \in UpdateCarRequests :
        LET req == [op |-> "car_update", car_id |-> id, request |-> r, now |-> clock'] IN
        /\ CarBegin(p)
        /\ IF ~ValidateUpdateCar(r)
           THEN Finish(p, req, BadRequest)
           ELSE IF car_find_by_id(cars, id) = None
           THEN Finish(p, req, CarNotFound("Car not found"))
           ELSE Await(p, "car_update_write",
                      [op |-> "car_update", car_id |-> id, request |-> r, now |-> clock',
                       car |-> car_find_by_id(cars, id)[1]])
        /\ UNCHANGED <<cvars, wvars>>

\* update_car_handler: the UPDATE and the response
UpdateCarWrite(p) ==
    /\ pc[p] = "car_update_write"
    /\ LET q == cur[p] IN
        /\ cars' = car_update(cars, q.car_id, q.request, q.car, q.now)
        /\ edited' = IF q.car_id \in DOMAIN cars THEN edited \cup {q.car_id} ELSE edited
        /\ Finish(p, q, IF q.car_id \in DOMAIN cars
                        THEN Response(200, "", car_find_by_id(cars', q.car_id))
                        ELSE CarNotFound("Car not found"))
    /\ UNCHANGED <<clock, campaigns, done, unmarked, wvars>>

\* delete_car_handler
DeleteCar(p) ==
    \E id \in CarIdsNamed :
        LET req == [op |-> "car_delete", car_id |-> id] IN
        /\ CarBegin(p)
        /\ cars' = car_delete(cars, id)
        /\ done' = [v \in DOMAIN cars' |-> done[v]]
        /\ Finish(p, req, IF id \in DOMAIN cars THEN Response(204, "", None)
                          ELSE CarNotFound("Car not found"))
        /\ UNCHANGED <<campaigns, edited, unmarked, wvars>>

\* add_completed_campaign_handler
AddCompleted(p) ==
    \E id \in CarIdsNamed, c \in CampaignIds :
        LET req == [op |-> "add", car_id |-> id, campaign_id |-> c, now |-> clock'] IN
        /\ CarBegin(p)
        /\ cars' = add_completed_campaign(cars, id, c, clock')
        /\ IF AddMatches(cars, id, c)
           THEN /\ done' = [done EXCEPT ![id] = @ \cup {c}]
                /\ Finish(p, req, Response(200, "", car_find_by_id(cars', id)))
           ELSE /\ done' = done
                /\ Finish(p, req, CarNotFound("Car not found or campaign already added"))
        /\ UNCHANGED <<campaigns, edited, unmarked, wvars>>

\* remove_completed_campaign_handler whose UPDATE leaves the array empty
RemoveCompletedClears(p) ==
    \E id \in CarIdsNamed, c \in CampaignIds :
        LET req == [op |-> "remove", car_id |-> id, campaign_id |-> c, now |-> clock'] IN
        /\ CarBegin(p)
        /\ cars' = clear_completed_campaigns(cars, id, clock')
        /\ Finish(p, req, IF id \in DOMAIN cars
                          THEN Response(200, "", car_find_by_id(cars', id))
                          ELSE CarNotFound("Car not found"))
        /\ UNCHANGED <<campaigns, done, edited, unmarked, wvars>>

\* remove_completed_campaign_handler
RemoveCompleted(p) ==
    \E id \in CarIdsNamed, c \in CampaignIds :
        LET req == [op |-> "remove", car_id |-> id, campaign_id |-> c, now |-> clock'] IN
        /\ CarBegin(p)
        /\ cars' = remove_completed_campaign(cars, id, c, clock')
        /\ pc' = [pc EXCEPT ![p] = "idle"]
        /\ last' = [proc |-> p, req |-> req,
                    resp |-> IF id \in DOMAIN cars
                             THEN Response(200, "", car_find_by_id(cars', id))
                             ELSE CarNotFound("Car not found")]
        /\ IF id \in DOMAIN cars
           THEN /\ done' = [done EXCEPT ![id] = @ \ {c}]
                /\ unmarked' = IF c \in done[id] THEN unmarked \cup {<<id, c>>} ELSE unmarked
                /\ cur' = [Forget(cur, id, {c}) EXCEPT ![p] = NoRequest]
           ELSE /\ UNCHANGED <<done, unmarked>>
                /\ cur' = [cur EXCEPT ![p] = NoRequest]
        /\ UNCHANGED <<campaigns, edited, wvars>>

\* clear_completed_campaigns_handler
ClearCompleted(p) ==
    \E id \in CarIdsNamed :
        LET req == [op |-> "clear", car_id |-> id, now |-> clock'] IN
        /\ CarBegin(p)
        /\ cars' = clear_completed_campaigns(cars, id, clock')
        /\ pc' = [pc EXCEPT ![p] = "idle"]
        /\ last' = [proc |-> p, req |-> req,
                    resp |-> IF id \in DOMAIN cars
                             THEN Response(200, "", car_find_by_id(cars', id))
                             ELSE CarNotFound("Car not found")]
        /\ IF id \in DOMAIN cars
           THEN /\ done' = [done EXCEPT ![id] = {}]
                /\ cur' = [Forget(cur, id, CampaignIds) EXCEPT ![p] = NoRequest]
           ELSE /\ done' = done
                /\ cur' = [cur EXCEPT ![p] = NoRequest]
        /\ UNCHANGED <<campaigns, edited, unmarked, wvars>>

\* get_cars_by_completed_campaign_handler
GetCarsByCompleted(p) ==
    \E c \in CampaignIds :
        LET req == [op |-> "by_campaign", campaign_id |-> c] IN
        /\ CarBegin(p)
        /\ Finish(p, req, Response(200, "", get_cars_by_completed_campaign(cars, c)))
        /\ UNCHANGED <<cvars, wvars>>

\* get_pending_campaigns_handler up to the answer of find_by_id
GetPendingFind(p) ==
    \E id \in CarIdsNamed :
        /\ CarBegin(p)
        /\ IF car_find_by_id(cars, id) = None
           THEN Finish(p, [op |-> "pending", car_id |-> id, car |-> None, excluded |-> {}],
                       Response(200, "", <<>>))
           ELSE Await(p, "pending_query",
                      [op |-> "pending", car_id |-> id, car |-> car_find_by_id(cars, id),
                       excluded |-> done[id]])
        /\ UNCHANGED <<cvars, wvars>>

\* get_pending_campaigns_handler: the SELECT on service_campaigns and the response
GetPendingQuery(p) ==
    /\ pc[p] = "pending_query"
    /\ \E rows \in get_pending_campaigns_for_car(campaigns, cur[p].car[1]) :
           Finish(p, cur[p], Response(200, "", rows))
    /\ UNCHANGED <<clock, cvars, wvars>>

\* update_service_campaign_status_handler
UpdateCampaignStatus(p) ==
    \E c \in CampaignIds, st \in {"Active", "Completed", "Cancelled"} :
        LET req == [op |-> "campaign_status", campaign_id |-> c, status |-> st] IN
        /\ CarBegin(p)
        /\ campaigns' = update_status(campaigns, c, st, clock')
        /\ Finish(p, req, Response(200, "", Some(CampaignFromRow(campaigns', c))))
        /\ UNCHANGED <<cars, done, edited, unmarked, wvars>>

\* mark_service_campaign_completed_handler that also records the campaign as
\* completed on every car
MarkCampaignCompletedOnCars(p) ==
    \E c \in CampaignIds :
        LET req == [op |-> "campaign_complete", campaign_id |-> c] IN
        /\ CarBegin(p)
        /\ campaigns' = mark_completed(campaigns, c, clock')
        /\ cars' = [v \in DOMAIN cars |->
                      [cars[v] EXCEPT !.completed_service_campaigns = array_append(@, c)]]
        /\ Finish(p, req, Response(200, "", Some(CampaignFromRow(campaigns', c))))
        /\ UNCHANGED <<done, edited, unmarked, wvars>>

\* mark_service_campaign_completed_handler
MarkCampaignCompleted(p) ==
    \E c \in CampaignIds :
        LET req == [op |-> "campaign_complete", campaign_id |-> c] IN
        /\ CarBegin(p)
        /\ campaigns' = mark_completed(campaigns, c, clock')
        /\ Finish(p, req, Response(200, "", Some(CampaignFromRow(campaigns', c))))
        /\ UNCHANGED <<cars, done, edited, unmarked, wvars>>

\* mark_service_campaign_pending_handler
MarkCampaignPending(p) ==
    \E c \in CampaignIds :
        LET req == [op |-> "campaign_pending", campaign_id |-> c] IN
        /\ CarBegin(p)
        /\ campaigns' = mark_pending(campaigns, c, clock')
        /\ Finish(p, req, Response(200, "", Some(CampaignFromRow(campaigns', c))))
        /\ UNCHANGED <<cars, done, edited, unmarked, wvars>>

CNext ==
    \E p \in Procs :
        \/ UpdateCarFind(p)
        \/ UpdateCarWrite(p)
        \/ DeleteCar(p)
        \/ AddCompleted(p)
        \/ RemoveCompleted(p)
        \/ ClearCompleted(p)
        \/ GetCarsByCompleted(p)
        \/ GetPendingFind(p)
        \/ GetPendingQuery(p)
        \/ UpdateCampaignStatus(p)
        \/ MarkCampaignCompleted(p)
        \/ MarkCampaignPending(p)

WInit ==
    /\ TasksInit
    /\ WarehouseInit
    /\ cars = CarSeed
    /\ campaigns = [c \in CampaignIds |->
                      IF c = 1 THEN CHOOSE s \in CampaignSeeds1 : s.target_vins = <<>>
                      ELSE CHOOSE s \in CampaignSeeds2 : s.brand_id = 1]
    /\ done = [v \in DOMAIN CarSeed |-> Range(CarSeed[v].completed_service_campaigns)]
    /\ edited = {}
    /\ unmarked = {}

CInit == TasksInit /\ WarehouseInit /\ CarsInit

\* the stock and the part prices served by concurrent tasks
SpecV == WInit /\ [][VNext]_vars

\* the stock ledger served by concurrent tasks
SpecW == WInit /\ [][WNext]_vars

\* the vehicles and campaigns served by concurrent tasks
SpecC == CInit /\ [][CNext]_vars

\* campaigns for the cars of brand 1 and model 1, of either urgency, created
\* at three times
PendingSeeds ==
    [brand_id : {1}, car_model_id : {1}, target_vins : {<<>>},
     is_mandatory : BOOLEAN, is_completed : {FALSE}, status : {"active"},
     created_at : {-5, -4, -3}, updated_at : {-3}]

\* three stored campaigns, in every combination of urgency and creation time
PInit ==
    /\ TasksInit
    /\ WarehouseInit
    /\ cars = CarSeed
    /\ campaigns \in [1..3 -> PendingSeeds]
    /\ done = [v \in DOMAIN CarSeed |-> Range(CarSeed[v].completed_service_campaigns)]
    /\ edited = {}
    /\ unmarked = {}

PNext == \E p \in Procs : GetPendingFind(p) \/ GetPendingQuery(p)

\* as CInit, with the clock MaxMarkOps requests before its bound
MInit ==
    /\ clock = MaxCarOps - MaxMarkOps
    /\ pc = [p \in Procs |-> "idle"]
    /\ cur = [p \in Procs |-> NoRequest]
    /\ last = NoEvent
    /\ WarehouseInit
    /\ CarsInit

MNext ==
    \E p \in Procs :
        \/ AddCompleted(p)
        \/ RemoveCompleted(p)
        \/ GetPendingFind(p)
        \/ GetPendingQuery(p)
        \/ UpdateCampaignStatus(p)

\* campaigns recorded on cars and removed again, and the pending query
SpecM == MInit /\ [][MNext]_vars

\* the pending-campaigns query over every such table
SpecP == PInit /\ [][PNext]_vars

----------------------------------------------------------------------------
(* Properties of the stock ledger *)

\* task p sends the UPDATE of update_stock for part and movement r in this step
StockStep(p, part, r) ==
    /\ pc[p] = "idle"
    /\ \/ /\ pc'[p] = "stock_find"
          /\ cur'[p].part_id = part
          /\ cur'[p].request = r
       \/ /\ last'.proc = p
          /\ last'.req.op = "stock"
          /\ last'.req.part_id = part
          /\ last'.req.request = r

\* the rows of a part
RowsOf(w, part) == { r \in w : r.part_id = part }

\* C1: in every reachable state every warehouse row has quantity >= 0,
\* whatever the interleaving of create, direct edits and movements.
C1_QuantityNonNegative == \A r \in warehouse : r.quantity >= 0

\* C1 witness: two Outgoing movements on the same part have both been applied
\* and neither task has answered yet; the row is down to 0.
C1_Witness ==
    /\ \A p \in Procs : /\ pc[p] = "stock_find"
                        /\ cur[p].request.movement_type = "outgoing"
                        /\ cur[p].part_id = 1
    /\ \E r \in warehouse : r.part_id = 1 /\ r.quantity = 0

\* C2: an Outgoing movement of amount q on a part whose stored quantity is
\* smaller than q leaves the table as it is (quantity and updated_at included)
\* and the caller gets the 404 "not found or insufficient stock".
C2_OutgoingRejected ==
    [][\A p \in Procs, part \in PartIds, r \in StockMovementRequests :
         ( /\ StockStep(p, part, r)
           /\ r.movement_type = "outgoing"
           /\ ValidateMovement(r)
           /\ RowsOf(warehouse, part) # {}
           /\ \A row \in RowsOf(warehouse, part) : row.quantity < r.quantity )
         => /\ warehouse' = warehouse
            /\ last'.proc = p
            /\ last'.resp = Response(404, "Warehouse item not found or insufficient stock", None)
      ]_vars

\* C2 witness: an Outgoing(3) on a part holding 2 has just been answered 404.
C2_Witness ==
    /\ last.req.op = "stock"
    /\ last.req.request = [quantity |-> 3, movement_type |-> "outgoing"]
    /\ last.resp.status = 404
    /\ \E row \in warehouse : row.part_id = last.req.part_id /\ row.quantity = 2

\* C3: movements on one part are serializable.  Every applied Incoming adds
\* its amount to the stored quantity and every applied Outgoing subtracts it,
\* so that the stored quantity always equals the last absolute write plus the
\* Incoming amounts minus the Outgoing amounts applied since (ledger), and an
\* Outgoing is applied only to a quantity that is at least its amount.
C3_MovementsSerializable ==
    [][/\ \A row \in warehouse' : row.quantity = ledger'[row.id]
       /\ \A p \in Procs, part \in PartIds, r \in StockMovementRequests :
            ( /\ StockStep(p, part, r)
              /\ r.movement_type = "outgoing"
              /\ pc'[p] = "stock_find" )
            => \A row \in RowsOf(warehouse, part) : row.quantity >= r.quantity
      ]_vars

\* C3 witness: an Incoming and an Outgoing on the same part have both been
\* applied while neither task has answered yet, and the quantity is 2 + 3 - 1.
C3_Witness ==
    /\ \A p \in Procs : pc[p] = "stock_find" /\ cur[p].part_id = 1
    /\ \E p \in Procs : cur[p].request = [quantity |-> 3, movement_type |-> "incoming"]
    /\ \E p \in Procs : cur[p].request = [quantity |-> 1, movement_type |-> "outgoing"]
    /\ \E row \in warehouse : row.part_id = 1 /\ row.quantity = 4

\* C9: there is at most one warehouse row per part, and a create for a part
\* that already has a row is answered 409 Conflict and adds no row, also when
\* two create calls for the same part run concurrently.
C9_CreateConflict ==
    [][/\ \A r1, r2 \in warehouse' : r1.part_id = r2.part_id => r1 = r2
       /\ \A p \in Procs :
            ( /\ pc[p] = "create_save"
              /\ pc'[p] = "idle"
              /\ exists_by_part_id(warehouse, cur[p].request.part_id) )
            => /\ warehouse' = warehouse
               /\ last'.resp.status = 409
      ]_vars

----------------------------------------------------------------------------
(* Properties of the completion tracking and of the eligibility query *)

\* the ids of the rows of a result list
Ids(rows) == { rows[i].id : i \in 1..Len(rows) }

\* C4: in every reachable state no car's completed_service_campaigns holds
\* the same campaign id twice.
C4_NoDuplicateCampaign ==
    \A v \in DOMAIN cars :
        Cardinality(Range(cars[v].completed_service_campaigns))
            = Len(cars[v].completed_service_campaigns)

\* C5: markCompleted and unmarkCompleted on one car never lose an update: on
\* every car that only the completion tracker has written, the stored set is
\* exactly the set of campaigns marked and not unmarked or cleared since, so
\* two marks that both succeed are both stored and an unmark removes only its
\* own campaign.
C5_NoLostCompletion ==
    \A v \in DOMAIN cars \ edited :
        Range(cars[v].completed_service_campaigns) = done[v]

\* C5 witness: after campaign 1 was marked on car 1, which held campaign 2,
\* campaign 2 has just been unmarked and campaign 1 is what is left.
C5_Witness ==
    /\ last.req.op = "remove"
    /\ last.req.car_id = 1
    /\ last.req.campaign_id = 2
    /\ last.resp.status = 200
    /\ 1 \notin edited
    /\ cars[1].completed_service_campaigns = <<1>>

\* C6: for an existing car, the pending-campaigns query returns exactly the
\* campaigns whose status is Active, whose target_vins is empty or holds the
\* car's VIN, whose brand and model are the car's, and whose id is not in the
\* completed set of the car as the query read it.
C6_PendingExactly ==
    (last.req.op = "pending" /\ last.req.car # None) =>
        LET car == last.req.car[1] IN
        /\ Len(last.resp.body) = Cardinality(Ids(last.resp.body))
        /\ Ids(last.resp.body) =
             { c \in DOMAIN campaigns :
                 /\ PendingStatus(campaigns[c].status) = "Active"
                 /\ \/ Len(campaigns[c].target_vins) = 0
                    \/ \E i \in 1..Len(campaigns[c].target_vins) :
                           campaigns[c].target_vins[i] = car.vin
                 /\ campaigns[c].brand_id = car.brand_id
                 /\ campaigns[c].car_model_id = car.model_id
                 /\ \A i \in 1..Len(car.completed_service_campaigns) :
                        car.completed_service_campaigns[i] # c }

\* C6 witness: the query for car 2 (VIN V2) returned campaign 1, which has no
\* target VINs, and left out campaign 2, which is Active, of the car's brand
\* and model, not completed on it, and targets other VINs.
C6_Witness ==
    /\ last.req.op = "pending"
    /\ last.req.car_id = 2
    /\ last.req.car # None
    /\ Ids(last.resp.body) = {1}
    /\ campaigns[1].target_vins = <<>>
    /\ campaigns[2].target_vins = <<"V1", "V3">>
    /\ campaigns[2].status = "active"
    /\ campaigns[2].brand_id = last.req.car[1].brand_id
    /\ campaigns[2].car_model_id = last.req.car[1].model_id
    /\ last.req.car[1].completed_service_campaigns = <<>>

\* C7: once markCompleted(v, c) has succeeded, no later pending-campaigns
\* result for v contains c unless the mark was unmarked in between.  Read in the
\* code's favour: only queries that began after the mark count, and
\* clearCompleted undoes a mark as unmarkCompleted does.
C7_Exclusion ==
    last.req.op = "pending" => Ids(last.resp.body) \cap last.req.excluded = {}

\* C8: the reverse lookup for campaign c returns exactly the cars on which
\* markCompleted(_, c) has succeeded and has not been unmarked since by
\* unmarkCompleted or clearCompleted.
C8_ReverseLookup ==
    last.req.op = "by_campaign" =>
        Ids(last.resp.body) = { v \in DOMAIN cars : last.req.campaign_id \in done[v] }

\* C10: markCompleted(v, c) on an existing car v that does not hold c appends
\* c to v's set, keeps the other members and the other cars, and returns the
\* updated car; if v does not exist or already holds c it answers the one
\* 404 "not found or already added" and no stored row changes.
C10_MarkCompleted ==
    [][\A p \in Procs :
         (last'.proc = p /\ last'.req.op = "add" /\ pc[p] = "idle") =>
            LET v == last'.req.car_id
                c == last'.req.campaign_id
            IN  IF v \in DOMAIN cars
                   /\ \A i \in 1..Len(cars[v].completed_service_campaigns) :
                          cars[v].completed_service_campaigns[i] # c
                THEN /\ DOMAIN cars' = DOMAIN cars
                     /\ cars'[v].completed_service_campaigns
                            = cars[v].completed_service_campaigns \o <<c>>
                     /\ \A u \in DOMAIN cars \ {v} : cars'[u] = cars[u]
                     /\ campaigns' = campaigns
                     /\ last'.resp = Response(200, "", <<cars'[v]>>)
                ELSE /\ cars' = cars
                     /\ campaigns' = campaigns
                     /\ last'.resp = Response(404, "Car not found or campaign already added", <<>>)
      ]_vars

\* C10 witness: campaign 1 has just been marked on car 1, which held
\* campaign 2, and the car returned holds both.
C10_Witness ==
    /\ last.req.op = "add"
    /\ last.req.car_id = 1
    /\ last.req.campaign_id = 1
    /\ last.resp.status = 200
    /\ last.resp.body[1].completed_service_campaigns = <<2, 1>>
    /\ cars[1].completed_service_campaigns = <<2, 1>>

\* task p serves a whole request of kind op in this step
CarStep(p, op) == pc[p] = "idle" /\ last'.proc = p /\ last'.req.op = op

\* C11: markCompleted(v, c) on a car that already holds c (as it does after a
\* first markCompleted(v, c)) leaves the stored array as it is, so marking
\* twice in sequence gives the content of marking once, which is the old
\* content plus c; clearCompleted(v) leaves the array empty, so a second
\* clearCompleted(v) leaves it empty again.
C11_Idempotent ==
    [][\A p \in Procs :
         /\ (CarStep(p, "add") /\ last'.req.car_id \in DOMAIN cars) =>
                LET v == last'.req.car_id
                    c == last'.req.campaign_id
                    old == cars[v].completed_service_campaigns
                    new == cars'[v].completed_service_campaigns
                IN  /\ Range(new) = Range(old) \cup {c}
                    /\ c \in Range(old) => new = old
         /\ (CarStep(p, "clear") /\ last'.req.car_id \in DOMAIN cars) =>
                cars'[last'.req.car_id].completed_service_campaigns = <<>>
      ]_vars

\* C11 witness: campaign 1 was marked on car 1, and the second markCompleted
\* of campaign 1 on car 1 has just been answered: the array holds it once.
C11_Witness ==
    /\ last.req.op = "add"
    /\ last.req.car_id = 1
    /\ last.req.campaign_id = 1
    /\ last.resp.status = 404
    /\ 1 \in DOMAIN cars
    /\ cars[1].completed_service_campaigns = <<2, 1>>

\* C12: unmarkCompleted(v, c) on an existing car answers 200 with the car as
\* it is now stored, and afterwards c is not in the completed set, whether or
\* not it was there before; the other members and the other cars are kept.
\* It answers 404 "Car not found" only when the car does not exist, and then
\* nothing stored changes.
C12_UnmarkCompleted ==
    [][\A p \in Procs :
         CarStep(p, "remove") =>
            LET v == last'.req.car_id
                c == last'.req.campaign_id
            IN  IF v \in DOMAIN cars
                THEN LET old == cars[v].completed_service_campaigns
                         new == cars'[v].completed_service_campaigns
                     IN  /\ DOMAIN cars' = DOMAIN cars
                         /\ Range(new) = Range(old) \ {c}
                         /\ (c \notin Range(old) => new = old)
                         /\ \A u \in DOMAIN cars \ {v} : cars'[u] = cars[u]
                         /\ last'.resp = Response(200, "", <<cars'[v]>>)
                ELSE /\ cars' = cars
                     /\ last'.resp = Response(404, "Car not found", <<>>)
      ]_vars

\* C12 witness: campaign 1, which car 1 did not hold, has just been unmarked
\* on car 1: the answer is 200 with the car, which still holds campaign 2.
C12_Witness ==
    /\ last.req.op = "remove"
    /\ last.req.car_id = 1
    /\ last.req.campaign_id = 1
    /\ last.resp.status = 200
    /\ last.resp.body[1].completed_service_campaigns = <<2>>
    /\ last.resp.body[1].updated_at = clock
    /\ clock = 1

\* C13: in every pending-campaigns result every mandatory campaign comes
\* before every non-mandatory one, and of two campaigns of the same urgency
\* the one created later comes first.
C13_PendingOrder ==
    last.req.op = "pending" =>
        \A i, j \in 1..Len(last.resp.body) :
            i < j =>
                LET a == last.resp.body[i]
                    b == last.resp.body[j]
                IN  /\ (b.is_mandatory => a.is_mandatory)
                    /\ (a.is_mandatory = b.is_mandatory => a.created_at >= b.created_at)

\* C13 witness: a result of three campaigns: the mandatory one, which is the
\* oldest, first, then the two non-mandatory ones, the newer first.
C13_Witness ==
    /\ last.req.op = "pending"
    /\ Len(last.resp.body) = 3
    /\ last.resp.body[1].is_mandatory /\ last.resp.body[1].created_at = -5
    /\ ~last.resp.body[2].is_mandatory /\ last.resp.body[2].created_at = -3
    /\ ~last.resp.body[3].is_mandatory /\ last.resp.body[3].created_at = -4

----------------------------------------------------------------------------
(* Further properties of the stock ledger *)

\* C14: an Incoming movement of amount q >= 1 on a part that has a row is
\* applied, and the row's quantity becomes exactly the old quantity plus q,
\* for every old quantity and q of the 32-bit column.
C14_IncomingSucceeds ==
    [][\A p \in Procs, part \in PartIds, r \in StockMovementRequests :
         ( /\ StockStep(p, part, r)
           /\ r.movement_type = "incoming"
           /\ ValidateMovement(r)
           /\ RowsOf(warehouse, part) # {} )
         => /\ pc'[p] = "stock_find"
            /\ \A row \in RowsOf(warehouse, part) :
                  \E new \in warehouse' :
                      new.id = row.id /\ new.quantity = row.quantity + r.quantity
      ]_vars

\* C15: an Adjustment movement of amount q on a part that has a row sets the
\* row's quantity to exactly q, whatever the quantity was, so that applying
\* the same Adjustment again gives the same quantity.
C15_AdjustmentAbsolute ==
    [][\A p \in Procs, part \in PartIds, r \in StockMovementRequests :
         ( /\ StockStep(p, part, r)
           /\ r.movement_type = "adjustment"
           /\ ValidateMovement(r)
           /\ RowsOf(warehouse, part) # {} )
         => /\ pc'[p] = "stock_find"
            /\ \A row \in RowsOf(warehouse, part) :
                  \E new \in warehouse' : new.id = row.id /\ new.quantity = r.quantity
      ]_vars

\* C15 witness: an Incoming(3) and then an Adjustment(1) have been applied to
\* the row of part 1 (neither task has answered yet): the quantity, which was
\* at least 3, is exactly 1.
C15_Witness ==
    /\ \A p \in Procs : pc[p] = "stock_find" /\ cur[p].part_id = 1
    /\ \E p \in Procs : cur[p].request = [quantity |-> 3, movement_type |-> "incoming"]
    /\ \E p \in Procs : cur[p].request = [quantity |-> 1, movement_type |-> "adjustment"]
    /\ \E row \in warehouse : row.part_id = 1 /\ row.quantity = 1

\* C16: a direct edit whose request gives no quantity leaves the stored
\* quantity of its row as it is at the time of the write, also when a
\* movement on the row was applied between the edit's read and its write.
C16_NoStaleQuantity ==
    [][\A p \in Procs :
         ( /\ pc[p] = "update_write"
           /\ pc'[p] = "idle"
           /\ cur[p].request.quantity = None )
         => \A row \in warehouse :
               row.id = cur[p].id =>
                  \E new \in warehouse' : new.id = row.id /\ new.quantity = row.quantity
      ]_vars

----------------------------------------------------------------------------
(* Further properties of the completion tracking *)

\* C17: a generic car update whose request names other fields only leaves
\* the completed_service_campaigns of its car exactly as stored at the time of
\* the write, also when a markCompleted or unmarkCompleted on the car ran
\* between the update's read and its write.
C17_UpdateKeepsCompleted ==
    [][\A p \in Procs :
         ( /\ pc[p] = "car_update_write"
           /\ pc'[p] = "idle"
           /\ cur[p].request.completed_service_campaigns = None
           /\ cur[p].car_id \in DOMAIN cars )
         => cars'[cur[p].car_id].completed_service_campaigns
                = cars[cur[p].car_id].completed_service_campaigns
      ]_vars

\* C18: the low-stock list holds exactly the rows with quantity <=
\* min_stock_level, each once, in ascending order of quantity; every stored
\* row has min_stock_level >= 0, so a row brought to quantity 0 is listed.
C18_LowStock ==
    /\ \A r \in warehouse : r.min_stock_level >= 0
    /\ last.req.op = "low_stock" =>
          LET rows == last.resp.body IN
          /\ { rows[i] : i \in 1..Len(rows) }
                = { r \in warehouse : r.quantity <= r.min_stock_level }
          /\ \A i, j \in 1..Len(rows) :
                i < j => rows[i] # rows[j] /\ rows[i].quantity <= rows[j].quantity
          /\ \A r \in warehouse : r.quantity = 0 => \E i \in 1..Len(rows) : rows[i] = r

\* C18 witness: a row created with quantity 2 and min_stock_level 2 was
\* brought to 0 by an Outgoing(2), and the low-stock list now holds it.
C18_Witness ==
    /\ last.req.op = "low_stock"
    /\ Len(last.resp.body) = 1
    /\ last.resp.body[1].quantity = 0
    /\ last.resp.body[1].min_stock_level = 2
    /\ \E p \in Procs :
          /\ pc[p] = "stock_find"
          /\ cur[p].request = [quantity |-> 2, movement_type |-> "outgoing"]
          /\ cur[p].part_id = last.resp.body[1].part_id

\* C19: an Incoming or Adjustment movement is answered not-found only if the
\* part had no row when the movement's UPDATE ran, and then no row changed;
\* its not-found wording does not speak of insufficient stock.
C19_NotFoundOnlyIfAbsent ==
    [][\A p \in Procs :
         ( /\ last'.proc = p
           /\ last'.req.op = "stock"
           /\ last'.req.request.movement_type # "outgoing"
           /\ last'.resp.status = 404 )
         => /\ pc[p] = "idle"
            /\ RowsOf(warehouse, last'.req.part_id) = {}
            /\ warehouse' = warehouse
            /\ last'.resp.error = "Warehouse item not found"
      ]_vars

\* the answer of update_stock_handler to movement r on a part without a row:
\* the UPDATE matches nothing and update_stock returns Ok(None)
StockAnswerNoRow(r) ==
    IF StockRowsAffected({}, 1, r) = 0 THEN StockNotFound(r) ELSE NoResponse

\* C20: the answer to an Outgoing movement on a part whose row holds less
\* than the amount differs from the answer the same movement gets on a part
\* that has no row.
C20_OutgoingDistinguishable ==
    [][\A p \in Procs, part \in PartIds, r \in StockMovementRequests :
         ( /\ StockStep(p, part, r)
           /\ r.movement_type = "outgoing"
           /\ ValidateMovement(r)
           /\ RowsOf(warehouse, part) # {}
           /\ \A row \in RowsOf(warehouse, part) : row.quantity < r.quantity )
         => last'.resp # StockAnswerNoRow(r)
      ]_vars

\* a warehouse request that must fail validation: a create or a direct edit
\* with a negative quantity, min_stock_level or max_stock_level, or a movement
\* with an amount <= 0
Negative(o) == o # None /\ o[1] < 0

InvalidRequest(req) ==
    CASE req.op = "create" ->
            \/ req.request.quantity < 0
            \/ Negative(req.request.min_stock_level)
            \/ Negative(req.request.max_stock_level)
      [] req.op = "update" ->
            \/ Negative(req.request.quantity)
            \/ Negative(req.request.min_stock_level)
            \/ Negative(req.request.max_stock_level)
      [] req.op = "stock" -> req.request.quantity <= 0
      [] OTHER -> FALSE

\* C21: a warehouse request that fails validation is answered 400
\* "Validation failed" in the step that takes it, with the tables unchanged,
\* and no task ever waits for the store with such a request.
C21_ValidationFirst ==
    [][\A p \in Procs :
         /\ (pc[p] = "idle" /\ last'.proc = p /\ InvalidRequest(last'.req)) =>
                /\ last'.resp = BadRequest
                /\ warehouse' = warehouse
                /\ nextId' = nextId
         /\ ~InvalidRequest(cur'[p])
      ]_vars

\* C21 witness: an Incoming movement of amount 0 on a part that has a row
\* has just been answered 400.
C21_Witness ==
    /\ last.req.op = "stock"
    /\ last.req.request.quantity = 0
    /\ last.resp = BadRequest
    /\ \E row \in warehouse : row.part_id = last.req.part_id

\* C22: a movement is attempted once, in the step that takes the request: a
\* refused Outgoing leaves the tables as they are and its task with nothing
\* left to do, a task that has sent its UPDATE never writes again, and every
\* stored quantity stays what the applied writes add up to, so that a later
\* Incoming does not bring a refused Outgoing into effect.
C22_NoLateOutgoing ==
    [][/\ \A row \in warehouse' : row.quantity = ledger'[row.id]
       /\ \A p \in Procs :
            /\ (pc[p] = "stock_find" /\ pc'[p] # pc[p]) =>
                   warehouse' = warehouse /\ pc'[p] = "idle" /\ cur'[p] = NoRequest
            /\ ( /\ pc[p] = "idle"
                 /\ last'.proc = p
                 /\ last'.req.op = "stock"
                 /\ last'.req.request.movement_type = "outgoing"
                 /\ last'.resp.status = 404 ) =>
                   warehouse' = warehouse /\ ledger' = ledger /\ cur'[p] = NoRequest
      ]_vars

\* C22 witness: an Outgoing(3) on part 1 was refused when the row held 2; an
\* Incoming(3) has since been applied and the row holds 5.
C22_Witness ==
    /\ [part_id |-> 1, quantity |-> 3] \in rejected
    /\ \E p \in Procs :
          /\ pc[p] = "stock_find"
          /\ cur[p].part_id = 1
          /\ cur[p].request = [quantity |-> 3, movement_type |-> "incoming"]
    /\ \E row \in warehouse : row.part_id = 1 /\ row.quantity = 5

\* task p takes or ends a pending-campaigns request in this step
PendingStep(p) ==
    \/ pc[p] = "idle" /\ pc'[p] = "pending_query"
    \/ pc[p] = "idle" /\ last'.proc = p /\ last'.req.op = "pending"
    \/ pc[p] = "pending_query" /\ pc'[p] = "idle"

\* this step answers a pending-campaigns request for the car, and in the state
\* of the tables, of the request answered by the step before
PendingRepeated ==
    /\ last.req.op = "pending"
    /\ last'.req.op = "pending"
    /\ last'.req.car = last.req.car
    /\ last.req.car # None
    /\ campaigns' = campaigns

\* the steps of a pending-campaigns request leave the tables as they are, and
\* a car id that is not stored is answered 200 with the empty list
PendingReadOnly ==
    \A p \in Procs :
        PendingStep(p) =>
            /\ cars' = cars
            /\ campaigns' = campaigns
            /\ (pc[p] = "idle" /\ pc'[p] = "idle" /\ last'.req.car_id \notin DOMAIN cars)
                  => last'.resp = Response(200, "", <<>>)

RECURSIVE LedgerValue(_, _, _)
LedgerValue(ids, w, pt) ==
    IF ids = {} THEN F64(0)
    ELSE LET id == CHOOSE x \in ids : TRUE
             row == find_by_id(w, id)[1]
         IN  F64Add(F64Mul(ledger[id], pt[row.part_id].purchase_price),
                    LedgerValue(ids \ {id}, w, pt))

\* C24: get_total_value answers the sum, over the entries stored at the time
\* of the call, of the quantity the applied movements add up to times the
\* price the entry's part has at that time, and 0 when no entry is stored.
C24_TotalValue ==
    [][\A p \in Procs :
         (pc[p] = "idle" /\ last'.proc = p /\ last'.req.op = "total_value") =>
            /\ last'.resp.status = 200
            /\ last'.resp.body = LedgerValue({ row.id : row \in warehouse }, warehouse, parts)
            /\ warehouse = {} => last'.resp.body = F64(0)
      ]_vars

\* C24 witness: the value 15 is answered after an entry was created with
\* quantity 2 and an Incoming movement of 3 was applied to it, at the price 3.
C24_Witness ==
    /\ last.req.op = "total_value"
    /\ last.resp.body = F64(15)
    /\ \E row \in warehouse : row.quantity = 5 /\ ledger[row.id] = 5
    /\ Cardinality(warehouse) = 1

\* C25: a delete answers 204 exactly when an entry with the id was stored and
\* removes that entry and nothing else, so a second delete of the id answers
\* 404; the parts are left as they are; while a part has no entry, a valid
\* movement on it is answered 404 and a valid create for it is saved and
\* answered 201.
C25_Delete ==
    [][\A p \in Procs :
         /\ (pc[p] = "idle" /\ last'.proc = p /\ last'.req.op = "delete") =>
               /\ last'.resp.status = IF find_by_id(warehouse, last'.req.id) # None
                                      THEN 204 ELSE 404
               /\ warehouse' = { r \in warehouse : r.id # last'.req.id }
               /\ parts' = parts
         /\ (/\ pc[p] = "idle" /\ last'.proc = p /\ last'.req.op = "stock"
             /\ ValidateMovement(last'.req.request)
             /\ ~exists_by_part_id(warehouse, last'.req.part_id)) =>
               /\ last'.resp.status = 404
               /\ warehouse' = warehouse
         /\ (/\ pc[p] = "idle" /\ last'.proc = p /\ last'.req.op = "create"
             /\ ValidateCreate(last'.req.request)) =>
               exists_by_part_id(warehouse, last'.req.request.part_id)
         /\ (/\ pc[p] = "create_save"
             /\ pc'[p] = "idle"
             /\ ~exists_by_part_id(warehouse, cur[p].request.part_id)) =>
               /\ last'.resp.status = 201
               /\ last'.resp.body[1].part_id = cur[p].request.part_id
               /\ last'.resp.body[1] \in warehouse'
      ]_vars

\* C25 witness: the entry with id 1 was created and deleted, and a create for
\* part 1 has then been saved with id 2 and answered 201.
C25_Witness ==
    /\ DOMAIN ledger = {1, 2}
    /\ find_by_id(warehouse, 1) = None
    /\ last.req.op = "create"
    /\ last.resp.status = 201
    /\ last.resp.body[1].id = 2
    /\ last.resp.body[1].part_id = 1
    /\ clock = 3

\* C26: adding, removing and clearing a car's completed campaigns leaves
\* is_completed and status of every campaign as they are, and marking a
\* campaign completed or pending leaves the completed campaigns of every car
\* as they are.
C26_Independent ==
    [][\A p \in Procs :
         /\ (CarStep(p, "add") \/ CarStep(p, "remove") \/ CarStep(p, "clear")) =>
               /\ DOMAIN campaigns' = DOMAIN campaigns
               /\ \A c \in DOMAIN campaigns :
                     /\ campaigns'[c].is_completed = campaigns[c].is_completed
                     /\ campaigns'[c].status = campaigns[c].status
         /\ (CarStep(p, "campaign_complete") \/ CarStep(p, "campaign_pending")) =>
               /\ DOMAIN cars' = DOMAIN cars
               /\ \A v \in DOMAIN cars :
                     cars'[v].completed_service_campaigns = cars[v].completed_service_campaigns
      ]_vars

\* C26 witness: campaign 1 was recorded on car 2 and then marked completed as
\* a whole: car 2 holds it, car 1 does not.
C26_Witness ==
    /\ last.req.op = "campaign_complete"
    /\ last.req.campaign_id = 1
    /\ campaigns[1].is_completed
    /\ DOMAIN cars = {1, 2}
    /\ cars[2].completed_service_campaigns = <<1>>
    /\ cars[1].completed_service_campaigns = <<2>>
    /\ ~campaigns[2].is_completed

\* C27: the entry a movement is answered with (200) carries the quantity that
\* the UPDATE of this movement produced.
C27_ReturnsOwnQuantity ==
    [][\A p \in Procs :
         (pc[p] = "stock_find" /\ pc'[p] = "idle" /\ last'.resp.status = 200) =>
            last'.resp.body[1].quantity = cur[p].produced
      ]_vars

\* C28: the UPDATE of an applied movement on part P leaves every entry of
\* another part as it is and keeps id, part_id, min_stock_level,
\* max_stock_level, location and created_at of P's entry; it sets updated_at
\* of P's entry to the time of the movement, later than the time stored
\* before; no entry is added or removed.
C28_MovementFrame ==
    [][\A p \in Procs :
         (pc[p] = "idle" /\ pc'[p] = "stock_find") =>
            LET part == cur'[p].part_id
                old == find_by_part_id(warehouse, part)
                new == find_by_part_id(warehouse', part)
            IN  /\ { r \in warehouse' : r.part_id # part } = { r \in warehouse : r.part_id # part }
                /\ Cardinality(RowsOf(warehouse, part)) = 1
                /\ Cardinality(RowsOf(warehouse', part)) = 1
                /\ new[1] = [old[1] EXCEPT !.quantity = new[1].quantity,
                                            !.updated_at = cur'[p].now]
                /\ new[1].updated_at > old[1].updated_at
                /\ nextId' = nextId
      ]_vars

\* C28 witness: entries are stored for both parts and the UPDATE of an
\* Incoming movement of 3 has run on the entry of part 1, which keeps the
\* min_stock_level 2 and the location it was created with; the entry of part 2
\* is as it was created.
C28_Witness ==
    \E p \in Procs :
        /\ pc[p] = "stock_find"
        /\ cur[p].part_id = 1
        /\ cur[p].request = [quantity |-> 3, movement_type |-> "incoming"]
        /\ \E r1, r2 \in warehouse :
              /\ r1.part_id = 1 /\ r1.quantity = 5 /\ r1.min_stock_level = 2
              /\ r1.location = Some("A")
              /\ r1.updated_at = cur[p].now /\ r1.created_at < r1.updated_at
              /\ r2.part_id = 2 /\ r2.updated_at = r2.created_at

\* C29: a movement answered with a store failure (500) was not applied: its
\* UPDATE has changed no row.
C29_FailureMeansUnapplied ==
    [][\A p \in Procs :
         (/\ pc[p] \in {"idle", "stock_find"}
          /\ pc'[p] = "idle"
          /\ last'.proc = p
          /\ last'.req.op = "stock"
          /\ last'.resp.status = 500) =>
            /\ last'.req.produced = -1
            /\ pc[p] = "idle"
            /\ warehouse' = warehouse
      ]_vars

\* the campaign is active and aimed at the car: the WHERE clause of the
\* pending query but for the completed campaigns of the car
Targets(sc, car) ==
    /\ sc.status = "active"
    /\ (sc.target_vins = <<>> \/ car.vin \in Range(sc.target_vins))
    /\ sc.brand_id = car.brand_id
    /\ sc.car_model_id = car.model_id

\* C30: when add_completed_campaign has recorded campaign c on a car that did
\* not hold it and remove_completed_campaign of c on that car is the next
\* request, the car's completed campaigns are again what they were before the
\* add, in content and order; and a pending query that starts on a car reads
\* the car as stored and returns every campaign that is active, aimed at the
\* car and not among its completed campaigns.
C30_MarkUnmark ==
    [][\A p \in Procs :
         /\ (/\ last.req.op = "add"
             /\ last.resp.status = 200
             /\ CarStep(p, "remove")
             /\ last'.req.car_id = last.req.car_id
             /\ last'.req.campaign_id = last.req.campaign_id) =>
               LET after == last.resp.body[1].completed_service_campaigns
                   prior == SubSeq(after, 1, Len(after) - 1)
               IN  /\ after = Append(prior, last.req.campaign_id)
                   /\ last.req.campaign_id \notin Range(prior)
                   /\ last'.resp.status = 200
                   /\ cars'[last.req.car_id].completed_service_campaigns = prior
         /\ (pc[p] = "idle" /\ pc'[p] = "pending_query") =>
               cur'[p].car = Some(cars[cur'[p].car_id])
         /\ (pc[p] = "pending_query" /\ pc'[p] = "idle") =>
               \A c \in DOMAIN campaigns :
                  (/\ Targets(campaigns[c], cur[p].car[1])
                   /\ c \notin Range(cur[p].car[1].completed_service_campaigns)) =>
                      c \in Ids(last'.resp.body)
      ]_vars

\* C30 witness: campaign 1 was recorded on car 2, which did not hold it, and
\* removed again; car 2 holds no completed campaign as before, and the pending
\* query for car 2 that followed has returned campaign 1.
C30_Witness ==
    /\ <<2, 1>> \in unmarked
    /\ 2 \in DOMAIN cars
    /\ cars[2].completed_service_campaigns = CarSeed[2].completed_service_campaigns
    /\ last.req.op = "pending"
    /\ last.req.car_id = 2
    /\ last.req.car = Some(cars[2])
    /\ last.resp.status = 200
    /\ 1 \in Ids(last.resp.body)

====
